---- MODULE Spec2Model ----
(***************************************************************************)
(* PerpBitmart (src/utilities/bitmart_perp.py): the adapter between a      *)
(* trading caller and the exchange session (the connectivity library).     *)
(*                                                                         *)
(* One caller drives the adapter, awaiting each call before the next.  A   *)
(* method runs from its call to its first await in one step; every answer  *)
(* of the session (a value or an exception) resumes it in another step.    *)
(* A method that has ended leaves its outcome in `result` (pc = "done")    *)
(* until the caller goes on to its next call.                              *)
(* The session is the environment: what it answers is chosen freely from   *)
(* small sets.  Every call handed to the session is appended to `calls`    *)
(* and its answer to `resps`, for the invocation in progress.              *)
(*                                                                         *)
(* Numbers.  TLC's integers are 32 bits wide, so two program constants are *)
(* modelled at a reduced value and named as bounds:                        *)
(*   MsPerSec  ticks of the clock per second (1000 in the source: the      *)
(*             clock is in milliseconds); the timeframe table and the      *)
(*             conversion of a timestamp to whole seconds both use it;     *)
(*   Prec      significant digits of the decimal context (10 in the        *)
(*             source, getcontext().prec = 10).                            *)
(* Amounts, sizes and prices are whole numbers of a smallest unit.         *)
(***************************************************************************)
EXTENDS Integers, Sequences, FiniteSets, TLC

VARIABLES market, pc, op, tasks, calls, resps, result

vars == <<market, pc, op, tasks, calls, resps, result>>

(***************************************************************************)
(* Bounds                                                                  *)
(***************************************************************************)
MsPerSec == 2
Prec == 2

(***************************************************************************)
(* Pairs: a pair string is the sequence of its parts, so that appending    *)
(* and removing the ":USDT" suffix are real string operations.             *)
(***************************************************************************)
Suffix == ":USDT"

ext_pair_to_pair(ext_pair) == Append(ext_pair, Suffix)

pair_to_ext_pair(pair) == SelectSeq(pair, LAMBDA part : part # Suffix)

ExtPairs == {<<"BTC-USDT">>, <<"ETH-USDT">>, <<"XYZ-USDT">>}

\* What the session's load_markets answers: BTC and ETH are listed, XYZ is not.
MarketTable ==
    (<<"BTC-USDT", Suffix>> :> [contractSize |-> 2]) @@
    (<<"ETH-USDT", Suffix>> :> [contractSize |-> 1])

\* self.market: the attribute does not exist until load_markets has stored it.
Unset == [loaded |-> FALSE]

Loaded(table) == [loaded |-> TRUE, table |-> table]

(***************************************************************************)
(* Decimal arithmetic under getcontext().prec = Prec.  A decimal is the    *)
(* fraction num/den with den a power of ten, without trailing zeros.       *)
(***************************************************************************)
RECURSIVE Pow10(_)
Pow10(n) == IF n = 0 THEN 1 ELSE 10 * Pow10(n - 1)

\* The integer nearest to n/d, a tie going to the even one (ROUND_HALF_EVEN).
RoundHalfEven(n, d) ==
    LET q == n \div d
        r == n % d
    IN  IF 2 * r < d THEN q
        ELSE IF 2 * r > d THEN q + 1
        ELSE IF q % 2 = 0 THEN q ELSE q + 1

RECURSIVE Normal(_, _)
Normal(num, den) ==
    IF den > 1 /\ num % 10 = 0 THEN Normal(num \div 10, den \div 10)
    ELSE [num |-> num, den |-> den]

\* The least k >= 0 with n * 10^k >= d * 10^(Prec-1): the digits to bring up.
RECURSIVE ShiftUp(_, _, _)
ShiftUp(n, d, k) ==
    IF n * Pow10(k) >= d * Pow10(Prec - 1) THEN k ELSE ShiftUp(n, d, k + 1)

\* The least j >= 0 with n < d * 10^(Prec+j): the digits to drop.
RECURSIVE ShiftDown(_, _, _)
ShiftDown(n, d, j) ==
    IF n < d * Pow10(Prec + j) THEN j ELSE ShiftDown(n, d, j + 1)

\* n/d (n >= 0, d > 0) rounded to Prec significant digits.
DecRound(n, d) ==
    IF n = 0 THEN [num |-> 0, den |-> 1]
    ELSE LET j == ShiftDown(n, d, 0)
             k == ShiftUp(n, d, 0)
         IN  IF j > 0
             THEN Normal(RoundHalfEven(n, d * Pow10(j)) * Pow10(j), 1)
             ELSE Normal(RoundHalfEven(n * Pow10(k), d), Pow10(k))

\* Decimal(x) of a whole number: exact.
Dec(x) == [num |-> x, den |-> 1]

DecMul(a, b) == DecRound(a.num * b.num, a.den * b.den)

\* a / b; the caller has excluded b = 0 (see DivError).
DecDiv(a, b) == DecRound(a.num * b.den, a.den * b.num)

\* What Decimal division raises on a zero divisor.
DivError(a) == IF a.num = 0 THEN "InvalidOperation" ELSE "DivisionByZero"

(***************************************************************************)
(* Outcomes of a call: a value, None, or a raised exception.               *)
(***************************************************************************)
Value(v) == [kind |-> "value", val |-> v, exc |-> "-"]

None == [kind |-> "none", val |-> <<>>, exc |-> "-"]

Raised(e) == [kind |-> "raised", val |-> <<>>, exc |-> e]

Pending == [kind |-> "pending", val |-> <<>>, exc |-> "-"]

\* The exceptions the session raises from a network operation.
SessionExcs == {"NetworkError", "ExchangeError"}

Info(success, message) == [success |-> success, message |-> message]

Call(fn, args) == [fn |-> fn, args |-> args]

\* The calls of the invocation in progress to the session's operation fn.
CallsTo(fn) == SelectSeq(calls, LAMBDA c : c.fn = fn)

SetLast(seq, x) == [seq EXCEPT ![Len(seq)] = x]

Init ==
    /\ market = Unset
    /\ pc = "idle"
    /\ op = [name |-> "none", loaded |-> FALSE]
    /\ tasks = <<>>
    /\ calls = <<>>
    /\ resps = <<>>
    /\ result = Pending

\* The caller has the outcome of its call and goes on.
caller_continues ==
    /\ pc = "done"
    /\ pc' = "idle"
    /\ op' = [name |-> "none", loaded |-> market.loaded]
    /\ tasks' = <<>>
    /\ calls' = <<>>
    /\ resps' = <<>>
    /\ result' = Pending
    /\ UNCHANGED market

\* A method that ends without awaiting the session.
Finish(o, r) ==
    /\ pc' = "done"
    /\ op' = o
    /\ tasks' = <<>>
    /\ calls' = <<>>
    /\ resps' = <<>>
    /\ result' = r

\* A method that runs up to its first await of the session.
Await(o, at, c) ==
    /\ pc' = at
    /\ op' = o
    /\ tasks' = <<>>
    /\ calls' = <<c>>
    /\ resps' = <<Pending>>
    /\ result' = Pending

(***************************************************************************)
(* load_markets                                                            *)
(***************************************************************************)
load_markets_call ==
    /\ pc = "idle"
    /\ Await([name |-> "load_markets", loaded |-> market.loaded],
             "load_markets", Call("load_markets", <<>>))
    /\ UNCHANGED market

load_markets_returns ==
    /\ pc = "load_markets"
    /\ \/ /\ market' = Loaded(MarketTable)
          /\ resps' = SetLast(resps, Value(MarketTable))
          /\ result' = None
       \/ \E e \in SessionExcs :
             /\ resps' = SetLast(resps, Raised(e))
             /\ result' = Raised(e)
             /\ UNCHANGED market
    /\ pc' = "done"
    /\ UNCHANGED <<op, tasks, calls>>

(***************************************************************************)
(* get_pair_info                                                           *)
(***************************************************************************)
\* PairInfo with a market table that defaults to an empty one.
PairInfo_defaulted(ext_pair) ==
    LET pair == ext_pair_to_pair(ext_pair)
    IN  IF market.loaded /\ pair \in DOMAIN market.table
        THEN Value(market.table[pair])
        ELSE None

PairInfo(ext_pair) ==
    LET pair == ext_pair_to_pair(ext_pair)
    IN  IF ~market.loaded THEN Raised("AttributeError")
        ELSE IF pair \in DOMAIN market.table THEN Value(market.table[pair])
        ELSE None

get_pair_info(ext_pair) ==
    /\ pc = "idle"
    /\ Finish([name |-> "get_pair_info", loaded |-> market.loaded,
               pair |-> ext_pair],
              PairInfo(ext_pair))
    /\ UNCHANGED market

\* (self.get_pair_info(pair))["contractSize"]
ContractSize(ext_pair) ==
    LET info == PairInfo(ext_pair)
    IN  IF info.kind = "raised" THEN info
        ELSE IF info.kind = "none" THEN Raised("TypeError")
        ELSE Value(info.val.contractSize)

(***************************************************************************)
(* set_margin_mode_and_leverage                                            *)
(***************************************************************************)
MarginModes == {"cross", "isolated", "bogus"}

Leverages == {1, 5}

\* ValidMarginMode with the check left out.
ValidMarginMode_unchecked(margin_mode) == margin_mode \in MarginModes

ValidMarginMode(margin_mode) == margin_mode \in {"cross", "isolated"}

set_margin_mode_and_leverage_call(ext_pair, margin_mode, leverage) ==
    LET o == [name |-> "set_margin_mode_and_leverage", loaded |-> market.loaded,
              pair |-> ext_pair, margin_mode |-> margin_mode,
              leverage |-> leverage]
    IN  /\ pc = "idle"
        /\ IF ~ValidMarginMode(margin_mode)
           THEN Finish(o, Raised("Exception(Margin mode must be either 'cross' or 'isolated')"))
           ELSE Await(o, "set_leverage",
                      Call("set_leverage",
                           [leverage |-> leverage,
                            symbol |-> ext_pair_to_pair(ext_pair),
                            open_type |-> margin_mode,
                            marginMode |-> margin_mode]))
        /\ UNCHANGED market

set_leverage_returns ==
    /\ pc = "set_leverage"
    /\ \/ /\ resps' = SetLast(resps, Value(<<>>))
          /\ result' = Value(Info(TRUE, <<"Margin mode and leverage set to",
                                          op.margin_mode, op.leverage>>))
       \/ \E e \in SessionExcs :
             /\ resps' = SetLast(resps, Raised(e))
             /\ result' = Raised(e)
    /\ pc' = "done"
    /\ UNCHANGED <<market, op, tasks, calls>>

(***************************************************************************)
(* cancel_orders, cancel_trigger_orders                                    *)
(***************************************************************************)
IdLists == {<<>>, <<"o1">>, <<"o1", "o2">>}

CancelFailed == Info(FALSE, <<"Error or no orders to cancel">>)

cancel_orders_call(ext_pair, ids) ==
    /\ pc = "idle"
    /\ Await([name |-> "cancel_orders", loaded |-> market.loaded,
              pair |-> ext_pair],
             "cancel_orders",
             Call("cancel_orders",
                  [ids |-> ids, symbol |-> ext_pair_to_pair(ext_pair),
                   stop |-> FALSE]))
    /\ UNCHANGED market

cancel_trigger_orders_call(ext_pair, ids) ==
    /\ pc = "idle"
    /\ Await([name |-> "cancel_trigger_orders", loaded |-> market.loaded,
              pair |-> ext_pair],
             "cancel_orders",
             Call("cancel_orders",
                  [ids |-> ids, symbol |-> ext_pair_to_pair(ext_pair),
                   stop |-> TRUE]))
    /\ UNCHANGED market

\* The message of a successful cancellation.
CancelledInfo(name, resp) ==
    Info(TRUE, <<Len(resp),
                 IF name = "cancel_orders" THEN "Orders cancelled"
                 ELSE "Trigger Orders cancelled">>)

\* try: ... return Info(success=True, ...)
\* except Exception: return Info(success=False, ...)
\* CancelOutcome without the except clause.
CancelOutcome_propagates(name, answer) ==
    IF answer.kind = "raised" THEN answer
    ELSE Value(CancelledInfo(name, answer.val))

CancelOutcome(name, answer) ==
    IF answer.kind = "raised" THEN Value(CancelFailed)
    ELSE Value(CancelledInfo(name, answer.val))

\* What the session's cancel_orders answers: the orders it cancelled (some
\* of those named), or an exception.
CancelAnswers(call) ==
    {Value(SubSeq(call.args.ids, 1, n)) : n \in 0..Len(call.args.ids)}
        \cup {Raised(e) : e \in SessionExcs}

cancel_orders_returns ==
    /\ pc = "cancel_orders"
    /\ \E answer \in CancelAnswers(calls[1]) :
          /\ resps' = SetLast(resps, answer)
          /\ result' = CancelOutcome(op.name, answer)
    /\ pc' = "done"
    /\ UNCHANGED <<market, op, tasks, calls>>

(***************************************************************************)
(* get_open_positions                                                      *)
(***************************************************************************)
PairLists == {<<<<"BTC-USDT">>>>, <<<<"BTC-USDT">>, <<"ETH-USDT">>>>}

\* The raw positions the session may report for a symbol.  An optional
\* field the exchange left out is None.
RawPositions(symbol) ==
    [symbol : {symbol}, contracts : {0, 1, 3}, contractSize : {1, 2},
     markPrice : {1, 10}, liquidationPrice : {None, Value(7)}]

\* position["liquidationPrice"] when truthy, else 0
OrZero(field) == IF field.kind = "value" /\ field.val # 0 THEN field.val ELSE 0

\* Decimal(position["contracts"]) * Decimal(position["contractSize"])
PositionSize(position) ==
    DecMul(Dec(position.contracts), Dec(position.contractSize))

\* PositionPrice with the contract size left out of the divisor.
PositionPrice_per_contract(position) ==
    DecDiv(Dec(position.markPrice), Dec(position.contracts))

\* Decimal(position["markPrice"]) / (contracts * contractSize)
PositionPrice(position) ==
    DecDiv(Dec(position.markPrice), PositionSize(position))

Position(position) ==
    [pair |-> pair_to_ext_pair(position.symbol),
     size |-> PositionSize(position),
     usd_size |-> position.markPrice,
     current_price |-> PositionPrice(position),
     liquidation_price |-> OrZero(position.liquidationPrice)]

\* The loop over the response: the first position that cannot be divided
\* raises, and nothing is returned.
RECURSIVE Positions(_, _)
Positions(resp, done) ==
    IF resp = <<>> THEN Value(done)
    ELSE IF PositionSize(Head(resp)).num = 0
         THEN Raised(DivError(Dec(Head(resp).markPrice)))
         ELSE Positions(Tail(resp), Append(done, Position(Head(resp))))

get_open_positions_call(pairs) ==
    /\ pc = "idle"
    /\ Await([name |-> "get_open_positions", loaded |-> market.loaded,
              pairs |-> pairs],
             "fetch_positions",
             Call("fetch_positions",
                  [symbols |-> [i \in DOMAIN pairs |-> ext_pair_to_pair(pairs[i])]]))
    /\ UNCHANGED market

\* The responses of fetch_positions: up to one position per symbol asked for.
PositionResponses(symbols) ==
    {<<>>} \cup {<<p>> : p \in RawPositions(symbols[1])}
           \cup (IF Len(symbols) < 2 THEN {}
                 ELSE {<<p, q>> : p \in RawPositions(symbols[1]),
                                  q \in RawPositions(symbols[2])})

fetch_positions_returns ==
    /\ pc = "fetch_positions"
    /\ \/ \E resp \in PositionResponses(calls[1].args.symbols) :
             /\ resps' = SetLast(resps, Value(resp))
             /\ result' = Positions(resp, <<>>)
       \/ \E e \in SessionExcs :
             /\ resps' = SetLast(resps, Raised(e))
             /\ result' = Raised(e)
    /\ pc' = "done"
    /\ UNCHANGED <<market, op, tasks, calls>>

(***************************************************************************)
(* get_order_by_id                                                         *)
(***************************************************************************)
OrderIds == {"o1", "o2"}

\* resp["info"]["side"] in [2, 3]
IsReduce(side_code) == side_code \in {2, 3}

\* The Order built from fetch_order's response.
OrderOf(resp, contract_size) ==
    [id |-> resp.id,
     pair |-> pair_to_ext_pair(resp.symbol),
     price |-> resp.price,
     size |-> DecMul(Dec(resp.amount), Dec(contract_size)),
     reduce |-> IsReduce(resp.info_side),
     filled |-> DecMul(Dec(resp.filled), Dec(contract_size)),
     remaining |-> DecMul(Dec(resp.remaining), Dec(contract_size))]

\* FetchOrderCall with an id other than the one handed in.
FetchOrderCall_other_id(order_id, ext_pair) ==
    Call("fetch_order", [id |-> "o1", symbol |-> ext_pair_to_pair(ext_pair)])

FetchOrderCall(order_id, ext_pair) ==
    Call("fetch_order", [id |-> order_id, symbol |-> ext_pair_to_pair(ext_pair)])

get_order_by_id_call(order_id, ext_pair) ==
    LET o == [name |-> "get_order_by_id", loaded |-> market.loaded,
              pair |-> ext_pair, order_id |-> order_id,
              lookup_size |-> ContractSize(ext_pair)]
    IN  /\ pc = "idle"
        /\ IF o.lookup_size.kind = "raised"
           THEN Finish(o, o.lookup_size)
           ELSE Await(o, "fetch_order", FetchOrderCall(order_id, ext_pair))
        /\ UNCHANGED market

\* The orders fetch_order may answer with: the order asked for, of one of
\* the amounts given, nothing or all of it filled.
OrderResponses(call, amounts) ==
    {[id |-> call.args.id, symbol |-> call.args.symbol, price |-> 10,
      amount |-> a, filled |-> IF full THEN a ELSE 0,
      remaining |-> IF full THEN 0 ELSE a, info_side |-> sc] :
        a \in amounts, full \in BOOLEAN, sc \in {1, 2}}

(***************************************************************************)
(* place_order                                                             *)
(***************************************************************************)
\* The sizes asked for; the last one has more digits than the decimal
\* context keeps.
Sizes == {0, 1, 3, 4, Pow10(Prec) + 1}

\* SizeInContracts without the division.
SizeInContracts_unscaled(size, contract_size) == Dec(size)

\* Decimal(size) / Decimal(contract_size)
SizeInContracts(size, contract_size) == DecDiv(Dec(size), Dec(contract_size))

\* self._session.amount_to_precision(pair, size): the amount cut to whole
\* contracts; an amount that cuts to zero is refused.
amount_to_precision(amount) ==
    LET cut == amount.num \div amount.den
    IN  IF cut = 0 THEN Raised("InvalidOrder") ELSE Value(cut)

\* except Exception as e: raise e if error, else print(e) and return None
\* OnError with the error flag ignored.
OnError_raises(error, e) == Raised(e)

OnError(error, e) == IF error THEN Raised(e) ELSE None

place_order_call(ext_pair, size, error) ==
    LET size_lookup == ContractSize(ext_pair)
        amount == IF size_lookup.kind = "raised" THEN size_lookup
                  ELSE amount_to_precision(SizeInContracts(size, size_lookup.val))
        o == [name |-> "place_order", loaded |-> market.loaded,
              pair |-> ext_pair, size |-> size, error |-> error,
              contract_size |-> size_lookup, amount |-> amount,
              lookup_size |-> Pending]
    IN  /\ pc = "idle"
        /\ IF amount.kind = "raised"
           THEN Finish(o, OnError(error, amount.exc))
           ELSE Await(o, "create_order",
                      Call("create_order",
                           [symbol |-> ext_pair_to_pair(ext_pair),
                            type |-> "limit", side |-> "buy",
                            amount |-> amount.val, price |-> 10,
                            reduceOnly |-> FALSE, marginMode |-> "cross",
                            leverage |-> 1]))
        /\ UNCHANGED market

\* create_order answers with the new order's id and symbol, or raises; the
\* follow-up get_order_by_id then runs up to its await of fetch_order.
create_order_returns ==
    /\ pc = "create_order"
    /\ \/ \E id \in OrderIds,
            symbol \in {calls[1].args.symbol, <<"XYZ-USDT", Suffix>>} :
             LET pair == pair_to_ext_pair(symbol)
                 lookup == ContractSize(pair)
                 answered == SetLast(resps, Value([id |-> id, symbol |-> symbol]))
             IN  /\ op' = [op EXCEPT !.lookup_size = lookup]
                 /\ IF lookup.kind = "raised"
                    THEN /\ pc' = "done"
                         /\ result' = OnError(op.error, lookup.exc)
                         /\ calls' = calls
                         /\ resps' = answered
                    ELSE /\ pc' = "fetch_order"
                         /\ result' = Pending
                         /\ calls' = Append(calls, FetchOrderCall(id, pair))
                         /\ resps' = Append(answered, Pending)
       \/ \E e \in SessionExcs :
             /\ resps' = SetLast(resps, Raised(e))
             /\ result' = OnError(op.error, e)
             /\ pc' = "done"
             /\ UNCHANGED <<op, calls>>
    /\ UNCHANGED <<market, tasks>>

\* The amounts fetch_order reports: for an order just placed, the amount
\* handed to create_order or another one.
FetchAmounts ==
    IF op.name = "place_order" THEN {CallsTo("create_order")[1].args.amount, 1}
    ELSE {1, 3, Pow10(Prec) + 1}

\* fetch_order answers, to get_order_by_id called directly or by place_order.
fetch_order_returns ==
    /\ pc = "fetch_order"
    /\ \/ \E resp \in OrderResponses(calls[Len(calls)], FetchAmounts) :
             /\ resps' = SetLast(resps, Value(resp))
             /\ result' = Value(OrderOf(resp, op.lookup_size.val))
       \/ \E e \in SessionExcs :
             /\ resps' = SetLast(resps, Raised(e))
             /\ result' = IF op.name = "place_order" THEN OnError(op.error, e)
                          ELSE Raised(e)
    /\ pc' = "done"
    /\ UNCHANGED <<market, op, tasks, calls>>

(***************************************************************************)
(* get_last_ohlcv                                                          *)
(***************************************************************************)
bitmart_limit == 500

Timeframes == {"1m", "5m", "15m", "1h", "2h", "4h", "1d"}

\* ts_dict: the length of a timeframe in ticks of the clock.
ts_dict ==
    ("1m" :> 1 * 60 * MsPerSec) @@ ("5m" :> 5 * 60 * MsPerSec) @@
    ("15m" :> 15 * 60 * MsPerSec) @@ ("1h" :> 60 * 60 * MsPerSec) @@
    ("2h" :> 2 * 60 * 60 * MsPerSec) @@ ("4h" :> 4 * 60 * 60 * MsPerSec) @@
    ("1d" :> 24 * 60 * 60 * MsPerSec)

\* int(time.time() * 1000): the clock's readings considered.
Nows == {1000000000, 1000000001}

\* The candle counts asked for: up to three sub-windows.
Limits == {1, bitmart_limit, bitmart_limit + 1, 2 * bitmart_limit,
           2 * bitmart_limit + 1}

\* The least limit of "1m" candles whose span is a whole number of window
\* steps (bitmart_limit * ts_dict["1m"] + 1 ticks each).
GridLimit == bitmart_limit * ts_dict["1m"] + 1

Min(a, b) == IF a < b THEN a ELSE b

\* int(ts / 1000): the quotient cut towards zero.
ToSeconds(ts) == IF ts >= 0 THEN ts \div MsPerSec ELSE -((-ts) \div MsPerSec)

StartTs(end_ts, timeframe, limit) == end_ts - limit * ts_dict[timeframe]

\* ReqEndTs without the cut at end_ts.
ReqEndTs_unclamped(current_ts, end_ts, timeframe) ==
    current_ts + bitmart_limit * ts_dict[timeframe]

ReqEndTs(current_ts, end_ts, timeframe) ==
    Min(current_ts + bitmart_limit * ts_dict[timeframe], end_ts)

NextTs(current_ts, timeframe) ==
    current_ts + bitmart_limit * ts_dict[timeframe] + 1

\* The parameters of one fetch_ohlcv request.
OhlcvParams(current_ts, req_end_ts) ==
    [start_time |-> ToSeconds(current_ts), end_time |-> ToSeconds(req_end_ts)]

\* The method up to its while loop.
get_last_ohlcv_call(ext_pair, timeframe, limit, now) ==
    LET end_ts == now
        start_ts == StartTs(end_ts, timeframe, limit)
    IN  /\ pc = "idle"
        /\ op' = [name |-> "get_last_ohlcv", loaded |-> market.loaded,
                  pair |-> ext_pair, timeframe |-> timeframe, limit |-> limit,
                  start_ts |-> start_ts, end_ts |-> end_ts,
                  current_ts |-> start_ts, completed |-> <<>>]
        /\ tasks' = <<>>
        /\ calls' = <<>>
        /\ resps' = <<>>
        /\ result' = Pending
        /\ pc' = "windows"
        /\ UNCHANGED market

\* One turn of the while loop: the request of one sub-window is created.
get_last_ohlcv_window ==
    /\ pc = "windows"
    /\ op.current_ts < op.end_ts
    /\ LET req_end_ts == ReqEndTs(op.current_ts, op.end_ts, op.timeframe)
       IN  /\ tasks' = Append(tasks, [current_ts |-> op.current_ts,
                                      req_end_ts |-> req_end_ts])
           /\ calls' = Append(calls,
                  Call("fetch_ohlcv",
                       [symbol |-> ext_pair_to_pair(op.pair),
                        timeframe |-> op.timeframe,
                        params |-> OhlcvParams(op.current_ts, req_end_ts)]))
    /\ resps' = Append(resps, Pending)
    /\ op' = [op EXCEPT !.current_ts = NextTs(op.current_ts, op.timeframe)]
    /\ UNCHANGED <<market, pc, result>>

\* The loop ends: asyncio.gather awaits all the requests together.
get_last_ohlcv_gather ==
    /\ pc = "windows"
    /\ ~(op.current_ts < op.end_ts)
    /\ pc' = "gather"
    /\ UNCHANGED <<market, op, tasks, calls, resps, result>>

\* The candles a request may be answered with: rows <<date, ...>> at the
\* first and the last second asked for, in either order.
OhlcvResponses(call) ==
    LET first == [date |-> call.args.params.start_time * MsPerSec, volume |-> 1]
        last == [date |-> call.args.params.end_time * MsPerSec, volume |-> 2]
    IN  {<<>>, <<first>>, <<first, last>>, <<last, first>>}

\* One request of the gather completes with its candles.
fetch_ohlcv_returns(i) ==
    /\ pc = "gather"
    /\ resps[i].kind = "pending"
    /\ \E rows \in OhlcvResponses(calls[i]) :
          resps' = [resps EXCEPT ![i] = Value(rows)]
    /\ op' = [op EXCEPT !.completed = Append(@, i)]
    /\ UNCHANGED <<market, pc, tasks, calls, result>>

\* One request of the gather raises: gather hands the exception on at once,
\* and the method ends with it.
fetch_ohlcv_raises(i) ==
    /\ pc = "gather"
    /\ resps[i].kind = "pending"
    /\ \E e \in SessionExcs :
          /\ resps' = [resps EXCEPT ![i] = Raised(e)]
          /\ result' = Raised(e)
    /\ op' = [op EXCEPT !.completed = Append(@, i)]
    /\ pc' = "done"
    /\ UNCHANGED <<market, tasks, calls>>

\* list(itertools.chain.from_iterable(ohlcv_unpack)): in request order.
RECURSIVE Chain(_)
Chain(lists) == IF lists = <<>> THEN <<>> ELSE Head(lists) \o Chain(Tail(lists))

\* SortIndex without the sort.
SortIndex_unsorted(rows, left) == {rows}

\* df.sort_index(): the rows by ascending date.  The sort is not a stable
\* one, so rows of one date come in any order.
RECURSIVE SortIndex(_, _)
SortIndex(rows, left) ==
    IF left = {} THEN {<<>>}
    ELSE UNION {{<<rows[i]>> \o rest : rest \in SortIndex(rows, left \ {i})} :
                  i \in {j \in left : \A k \in left : rows[j].date <= rows[k].date}}

\* Every request has completed: the method resumes and returns the frame.
get_last_ohlcv_returns ==
    /\ pc = "gather"
    /\ \A i \in DOMAIN resps : resps[i].kind = "value"
    /\ LET ohlcv_list == Chain([i \in DOMAIN resps |-> resps[i].val])
       IN  \E df \in SortIndex(ohlcv_list, DOMAIN ohlcv_list) :
              result' = Value(df)
    /\ pc' = "done"
    /\ UNCHANGED <<market, op, tasks, calls, resps>>

Next ==
    \/ load_markets_call
    \/ load_markets_returns
    \/ \E p \in ExtPairs : get_pair_info(p)
    \/ \E p \in ExtPairs, m \in MarginModes, l \in Leverages :
          set_margin_mode_and_leverage_call(p, m, l)
    \/ set_leverage_returns
    \/ \E p \in ExtPairs, ids \in IdLists : cancel_orders_call(p, ids)
    \/ \E p \in ExtPairs, ids \in IdLists : cancel_trigger_orders_call(p, ids)
    \/ cancel_orders_returns
    \/ \E pairs \in PairLists : get_open_positions_call(pairs)
    \/ fetch_positions_returns
    \/ \E id \in OrderIds, p \in ExtPairs : get_order_by_id_call(id, p)
    \/ \E p \in ExtPairs, size \in Sizes, error \in BOOLEAN :
          place_order_call(p, size, error)
    \/ create_order_returns
    \/ fetch_order_returns
    \/ \E tf \in Timeframes, limit \in Limits, now \in Nows :
          get_last_ohlcv_call(<<"BTC-USDT">>, tf, limit, now)
    \/ get_last_ohlcv_window
    \/ get_last_ohlcv_gather
    \/ \E i \in DOMAIN resps : fetch_ohlcv_returns(i)
    \/ \E i \in DOMAIN resps : fetch_ohlcv_raises(i)
    \/ get_last_ohlcv_returns
    \/ caller_continues

Spec == Init /\ [][Next]_vars

(***************************************************************************)
(* The window arithmetic of get_last_ohlcv alone, over a wider range of    *)
(* candle counts; a gather of many requests is followed only to its first  *)
(* failure.                                                                *)
(***************************************************************************)
WindowLimits(timeframe) ==
    Limits \cup (IF timeframe = "1m" THEN {GridLimit, 2 * GridLimit} ELSE {})

NextWindows ==
    \/ \E tf \in Timeframes, now \in Nows : \E limit \in WindowLimits(tf) :
          get_last_ohlcv_call(<<"BTC-USDT">>, tf, limit, now)
    \/ get_last_ohlcv_window
    \/ get_last_ohlcv_gather
    \/ \E i \in DOMAIN resps : fetch_ohlcv_raises(i)
    \/ caller_continues

SpecWindows == Init /\ [][NextWindows]_vars

(***************************************************************************)
(* Properties                                                              *)
(***************************************************************************)
\* The while loop of get_last_ohlcv has ended: tasks holds every sub-window.
WindowsBuilt == op.name = "get_last_ohlcv" /\ pc \in {"gather", "done"}

\* The gap between the end of sub-window i and the start of the next.
Gap(i) == tasks[i + 1].current_ts - tasks[i].req_end_ts

\* C1 as claimed: for every limit >= 1 and every timeframe of the table the
\* sub-windows tile [now - limit * interval, now]: the first begins at the
\* start, the last ends at now, no gap between consecutive windows exceeds
\* one tick (1 ms), and no window spans more than 500 intervals.
C1_WindowsTileToNow ==
    WindowsBuilt =>
        /\ tasks # <<>>
        /\ tasks[1].current_ts = op.end_ts - op.limit * ts_dict[op.timeframe]
        /\ tasks[Len(tasks)].req_end_ts = op.end_ts
        /\ \A i \in 1..(Len(tasks) - 1) : Gap(i) <= 1
        /\ \A i \in DOMAIN tasks :
              tasks[i].req_end_ts - tasks[i].current_ts
                  <= bitmart_limit * ts_dict[op.timeframe]

\* C1 as amended: the same, except that the last sub-window ends at now or
\* one tick (1 ms) before now, so that no gap, the one before now included,
\* exceeds one tick.
C1_WindowsTile ==
    WindowsBuilt =>
        /\ tasks # <<>>
        /\ tasks[1].current_ts = op.end_ts - op.limit * ts_dict[op.timeframe]
        /\ op.end_ts - tasks[Len(tasks)].req_end_ts \in {0, 1}
        /\ \A i \in 1..(Len(tasks) - 1) : Gap(i) <= 1
        /\ \A i \in DOMAIN tasks :
              tasks[i].req_end_ts - tasks[i].current_ts
                  <= bitmart_limit * ts_dict[op.timeframe]

\* Several sub-windows were built and the last one ends one tick before now.
C1_Witness ==
    /\ WindowsBuilt
    /\ Len(tasks) > 1
    /\ tasks[Len(tasks)].req_end_ts = op.end_ts - 1

\* C9 as claimed: consecutive requests do not share a boundary: the
\* start_time of each request (whole seconds) is strictly greater than the
\* end_time of the request before it.
C9_RequestsShareNoBoundary ==
    op.name = "get_last_ohlcv" =>
        \A i \in 1..(Len(calls) - 1) :
            calls[i + 1].args.params.start_time > calls[i].args.params.end_time

\* C2: set_margin_mode_and_leverage with a margin mode other than cross and
\* isolated raises the validation error with no call to the session; with
\* a valid mode set_leverage is called exactly once, and an exception it
\* raises is the outcome of the method, no Info being returned.
C2_MarginModeValidated ==
    op.name = "set_margin_mode_and_leverage" =>
        IF op.margin_mode \notin {"cross", "isolated"}
        THEN /\ calls = <<>>
             /\ pc = "done"
             /\ result = Raised("Exception(Margin mode must be either 'cross' or 'isolated')")
        ELSE /\ Len(calls) = 1
             /\ calls[1].fn = "set_leverage"
             /\ resps[1].kind = "raised" =>
                   /\ pc = "done"
                   /\ result = Raised(resps[1].exc)
             /\ result.kind = "value" => resps[1].kind = "value"
             /\ pc = "done" => result.kind \in {"value", "raised"}

\* A call with margin mode "bogus" has ended.
C2_Witness ==
    /\ op.name = "set_margin_mode_and_leverage"
    /\ op.margin_mode = "bogus"
    /\ pc = "done"
    /\ result.kind = "raised"

\* The exception, if any, that ended the place_order in progress: from the
\* contract-size lookup, the amount precision, create_order, the lookup of
\* the follow-up get_order_by_id, or fetch_order.
PlaceOrderFailure ==
    IF op.contract_size.kind = "raised" THEN op.contract_size
    ELSE IF op.amount.kind = "raised" THEN op.amount
    ELSE IF resps[1].kind = "raised" THEN resps[1]
    ELSE IF op.lookup_size.kind = "raised" THEN op.lookup_size
    ELSE IF Len(resps) = 2 /\ resps[2].kind = "raised" THEN resps[2]
    ELSE None

\* C3: whatever step of place_order fails, with error = False the method
\* returns None and does not raise, and with error = True it raises that
\* failure.
C3_PlaceOrderTwoModes ==
    (op.name = "place_order" /\ PlaceOrderFailure.kind = "raised") =>
        /\ pc = "done"
        /\ IF op.error THEN result = Raised(PlaceOrderFailure.exc)
           ELSE result.kind = "none"

\* fetch_order failed in a place_order with error = False, which returned None.
C3_Witness ==
    /\ op.name = "place_order"
    /\ ~op.error
    /\ Len(resps) = 2
    /\ resps[2].kind = "raised"
    /\ pc = "done"
    /\ result.kind = "none"

\* C4: cancel_orders and cancel_trigger_orders never raise: when the
\* session's cancel call raises they return the same Info, success = false
\* with the generic message, and they report success only when the session
\* answered normally.
C4_CancelNeverRaises ==
    op.name \in {"cancel_orders", "cancel_trigger_orders"} =>
        /\ result.kind # "raised"
        /\ pc = "done" =>
              /\ result.kind = "value"
              /\ resps[1].kind = "raised" =>
                    /\ ~result.val.success
                    /\ result.val.message = <<"Error or no orders to cancel">>
              /\ result.val.success => resps[1].kind = "value"

\* A cancel_trigger_orders whose session call raised has ended.
C4_Witness ==
    /\ op.name = "cancel_trigger_orders"
    /\ pc = "done"
    /\ resps[1].kind = "raised"
    /\ result.kind = "value"

\* The methods that take a pair (or pairs).
PairScoped ==
    {"get_pair_info", "place_order", "get_order_by_id",
     "set_margin_mode_and_leverage", "get_open_positions", "cancel_orders",
     "cancel_trigger_orders", "get_last_ohlcv"}

\* C5 as claimed: every pair-scoped method called before load_markets has
\* completed fails with a lookup error, and makes no call to the session.
C5_UnloadedAlwaysFails ==
    (op.name \in PairScoped /\ ~op.loaded) =>
        /\ calls = <<>>
        /\ pc = "done" => result = Raised("AttributeError")

\* C5 as amended: before load_markets has completed, the methods that read
\* the market table make no call to the session and end on the lookup:
\* get_pair_info and get_order_by_id raise the lookup error, place_order
\* raises it with error = True and returns None with error = False.  The
\* other pair-scoped methods do not read the table: they end only after
\* calling the session and never with the lookup error.
C5_UnloadedLookupFails ==
    ~op.loaded =>
        /\ op.name \in {"get_pair_info", "get_order_by_id"} =>
              /\ calls = <<>>
              /\ pc = "done"
              /\ result = Raised("AttributeError")
        /\ op.name = "place_order" =>
              /\ calls = <<>>
              /\ pc = "done"
              /\ result = IF op.error THEN Raised("AttributeError") ELSE None
        /\ (/\ op.name \in {"get_open_positions", "cancel_orders",
                            "cancel_trigger_orders", "get_last_ohlcv",
                            "set_margin_mode_and_leverage"}
            /\ pc = "done") =>
              /\ result.exc # "AttributeError"
              /\ calls = <<>> =>
                    /\ op.name = "set_margin_mode_and_leverage"
                    /\ op.margin_mode \notin {"cross", "isolated"}

\* get_order_by_id was called before load_markets and has raised.
C5_Witness ==
    /\ op.name = "get_order_by_id"
    /\ ~op.loaded
    /\ pc = "done"
    /\ result.kind = "raised"

Abs(x) == IF x < 0 THEN -x ELSE x

\* The decimal x is n/d (n >= 0, d > 0) up to the rounding of the decimal
\* context: a relative error of at most 5 * 10^(-Prec).
Close(x, n, d) ==
    Abs(x.num * d - n * x.den) * Pow10(Prec) <= 5 * n * x.den

\* contracts * contractSize of a raw position.
RawSize(position) == position.contracts * position.contractSize

OrderReturned ==
    /\ op.name \in {"place_order", "get_order_by_id"}
    /\ pc = "done"
    /\ result.kind = "value"

\* place_order returned an Order for a size that is a whole number of
\* contracts, fetch_order having echoed the amount handed to create_order.
EchoedMultiple ==
    /\ op.name = "place_order"
    /\ OrderReturned
    /\ op.size % op.contract_size.val = 0
    /\ resps[2].val.amount = calls[1].args.amount

\* C7 as claimed: the amount handed to create_order is size / contractSize
\* cut to whole contracts; the Order of get_order_by_id has size, filled and
\* remaining equal to the session's amount, filled and remaining times the
\* same contractSize; and for a size that is a whole number of contracts,
\* the amount being echoed, place_order returns the size asked for.
C7_SizesScaledExactly ==
    /\ (op.name = "place_order" /\ calls # <<>>) =>
          calls[1].args.amount = op.size \div op.contract_size.val
    /\ OrderReturned =>
          LET resp == resps[Len(resps)].val
              cs == op.lookup_size.val
          IN  /\ op.name = "place_order" => cs = op.contract_size.val
              /\ result.val.size = Dec(resp.amount * cs)
              /\ result.val.filled = Dec(resp.filled * cs)
              /\ result.val.remaining = Dec(resp.remaining * cs)
    /\ EchoedMultiple => result.val.size = Dec(op.size)

\* x (a decimal) is the whole number n up to the rounding of the context.
CloseTo(x, n) == IF n = 0 THEN x.num = 0 ELSE Close(x, n, 1)

\* C7 as amended: the same up to the rounding of the decimal context (Prec
\* significant digits, 10 in the source): the amount handed to create_order
\* is the whole part of size / contractSize rounded to the context; size,
\* filled and remaining of the Order are the session's values times
\* contractSize rounded to the context; and the size asked for comes back
\* unchanged when it and its number of contracts fit the context.
C7_SizesScaled ==
    /\ (op.name = "place_order" /\ calls # <<>>) =>
          LET amount == calls[1].args.amount
              cs == op.contract_size.val
          IN  /\ amount * cs * Pow10(Prec) <= op.size * (Pow10(Prec) + 5)
              /\ op.size * (Pow10(Prec) - 5) < (amount + 1) * cs * Pow10(Prec)
    /\ OrderReturned =>
          LET resp == resps[Len(resps)].val
              cs == op.lookup_size.val
          IN  /\ op.name = "place_order" => cs = op.contract_size.val
              /\ CloseTo(result.val.size, resp.amount * cs)
              /\ CloseTo(result.val.filled, resp.filled * cs)
              /\ CloseTo(result.val.remaining, resp.remaining * cs)
    /\ (/\ EchoedMultiple
        /\ op.size < Pow10(Prec)
        /\ op.size \div op.contract_size.val < Pow10(Prec)) =>
          result.val.size = Dec(op.size)

\* place_order of two contracts of size 2 returned an Order of size 4.
C7_Witness ==
    /\ EchoedMultiple
    /\ op.size = 4
    /\ op.contract_size.val = 2
    /\ result.val.size = Dec(4)

\* C8: a place_order calls create_order at most once and fetch_order at
\* most once; fetch_order is called only after create_order has answered,
\* with the id it answered; and an Order returned is built from the answer
\* of fetch_order.
C8_CreateThenLookup ==
    op.name = "place_order" =>
        /\ Len(calls) <= 2
        /\ Len(CallsTo("create_order")) <= 1
        /\ Len(CallsTo("fetch_order")) <= 1
        /\ CallsTo("fetch_order") # <<>> =>
              /\ calls[1].fn = "create_order"
              /\ calls[2].fn = "fetch_order"
              /\ resps[1].kind = "value"
              /\ calls[2].args.id = resps[1].val.id
        /\ result.kind = "value" =>
              /\ Len(calls) = 2
              /\ resps[2].kind = "value"
              /\ result.val.id = resps[2].val.id
              /\ result.val.reduce = (resps[2].val.info_side \in {2, 3})
              /\ (result.val.filled.num = 0) = (resps[2].val.filled = 0)
              /\ (result.val.remaining.num = 0) = (resps[2].val.remaining = 0)

\* place_order returned the Order looked up under the second id.
C8_Witness ==
    /\ op.name = "place_order"
    /\ pc = "done"
    /\ result.kind = "value"
    /\ resps[1].val.id = "o2"
    /\ result.val.reduce

Sorted(rows) ==
    \A i \in 1..(Len(rows) - 1) : rows[i].date <= rows[i + 1].date

Occurs(row, rows) == Cardinality({k \in DOMAIN rows : rows[k] = row})

\* The rows of a are those of b, each as often.
SameRows(a, b) ==
    /\ Len(a) = Len(b)
    /\ \A k \in DOMAIN a : Occurs(a[k], a) = Occurs(a[k], b)

\* C10: get_last_ohlcv creates one request per sub-window before any of
\* them runs, and no other; none completes twice; whatever the order in
\* which they complete, the method returns only when all have succeeded,
\* and then the rows of all the answers sorted by date; when one fails the
\* method ends with that exception and returns nothing.
C10_GatherAllOrNothing ==
    op.name = "get_last_ohlcv" =>
        /\ Len(calls) = Len(tasks)
        /\ Len(resps) = Len(tasks)
        /\ \A i \in DOMAIN calls : calls[i].fn = "fetch_ohlcv"
        /\ pc = "windows" => \A i \in DOMAIN resps : resps[i].kind = "pending"
        /\ Cardinality({op.completed[k] : k \in DOMAIN op.completed})
              = Len(op.completed)
        /\ result.kind = "value" =>
              /\ \A i \in DOMAIN resps : resps[i].kind = "value"
              /\ Sorted(result.val)
              /\ SameRows(result.val,
                          Chain([i \in DOMAIN resps |-> resps[i].val]))
        /\ (\E i \in DOMAIN resps : resps[i].kind = "raised") =>
              /\ pc = "done"
              /\ result.kind = "raised"
              /\ \E i \in DOMAIN resps : result = resps[i]
        /\ pc = "done" => result.kind \in {"value", "raised"}

\* Three requests completed last first, an answer out of date order, and
\* the frame was returned.
C10_Witness ==
    /\ op.name = "get_last_ohlcv"
    /\ pc = "done"
    /\ result.kind = "value"
    /\ op.completed = <<3, 1, 2>>
    /\ ~Sorted(Chain([i \in DOMAIN resps |-> resps[i].val]))

====
